---- MODULE Spec2Model ----
(***************************************************************************)
(* AI-BOS: tiered penalty calculation (penalty_rules.py), the decision     *)
(* engine with its bounded audit log (decision_engine.py, ai_client.py)    *)
(* and the notice sender with its transports (send_notice.py, email.py,    *)
(* sms.py).                                                                *)
(*                                                                         *)
(* Money is counted in mills (1/1000 of a rupee), so that a configured     *)
(* amount with three decimals and the two roundings of the code to cents   *)
(* (a multiple of 10 mills) are exact integers.  A Python dict is a        *)
(* record whose DOMAIN is the set of keys the code puts into it.           *)
(***************************************************************************)
EXTENDS Integers, Sequences, FiniteSets, TLC

VARIABLES
    thresholds,        \* PenaltyCalculator.thresholds
    amounts,           \* PenaltyCalculator.amounts (mills)
    clock,             \* datetime.now(): the number of readings taken so far
    call,              \* the last operation invoked, with its arguments
    ret,               \* what that operation returned or raised
    logged,            \* the logger lines that operation wrote
    decision_logs,     \* DecisionEngine.decision_logs
    notification_log,  \* NoticeSender.notification_log
    email_enabled,     \* EmailService.enabled
    sent_emails,       \* EmailService.sent_emails
    sms_enabled,       \* SMSService.enabled
    sent_sms,          \* SMSService.sent_sms
    threads            \* the callers inside _log_decision: position and locals

vars == <<thresholds, amounts, clock, call, ret, logged, decision_logs,
          notification_log, email_enabled, sent_emails, sms_enabled, sent_sms,
          threads>>

calcVars == <<thresholds, amounts>>
engineVars == <<decision_logs>>
noticeVars == <<notification_log, email_enabled, sent_emails, sms_enabled, sent_sms>>

----------------------------------------------------------------------------
(* Bounds of the model *)

MaxDelay == 128
HugeDelay == 10000
MaxClock == 4
MaxLimit == 2
NThreads == 2
LongDelayDigits == 96

----------------------------------------------------------------------------
(* Rule Config: settings.py *)

PENALTY_THRESHOLDS ==
    [no_penalty_max |-> 30, low_penalty_min |-> 31,
     low_penalty_max |-> 60, high_penalty_min |-> 61]

PENALTY_AMOUNTS ==
    [fixed_penalty |-> 500000, variable_rate |-> 25000, high_penalty_base |-> 1000000]

get_penalty_config == [thresholds |-> PENALTY_THRESHOLDS, amounts |-> PENALTY_AMOUNTS]

\* Rule Configs the calculator may be loaded with: the shipped one, one whose
\* fixed tier reaches beyond 120 minutes, and one with a negative threshold.
ThresholdConfigs ==
    { get_penalty_config.thresholds,
      [no_penalty_max |-> 30, low_penalty_min |-> 31,
       low_penalty_max |-> 125, high_penalty_min |-> 126],
      [no_penalty_max |-> -1, low_penalty_min |-> 0,
       low_penalty_max |-> 60, high_penalty_min |-> 61] }

\* The shipped amounts, amounts with a third decimal, a fixed penalty above
\* the progressive base, and amounts that are not positive.
AmountConfigs ==
    { get_penalty_config.amounts,
      [fixed_penalty |-> 500005, variable_rate |-> 25000, high_penalty_base |-> 1000005],
      [fixed_penalty |-> 500004, variable_rate |-> 25005, high_penalty_base |-> 1000000],
      [fixed_penalty |-> 1500000, variable_rate |-> 25000, high_penalty_base |-> 1000000],
      [fixed_penalty |-> 0, variable_rate |-> -25000, high_penalty_base |-> 1000000] }

----------------------------------------------------------------------------
(* decimal.Decimal.quantize(Decimal('0.01')) on mills *)

Abs(x) == IF x < 0 THEN -x ELSE x

Sign(x) == IF x < 0 THEN -1 ELSE 1

\* rounding=ROUND_HALF_UP: ties go away from zero
quantize_half_up(x) == Sign(x) * ((Abs(x) + 5) \div 10) * 10

\* no rounding argument: the context's default, ROUND_HALF_EVEN
quantize_default(x) ==
    LET q == Abs(x) \div 10
        r == Abs(x) % 10
        up == r > 5 \/ (r = 5 /\ q % 2 = 1)
    IN  Sign(x) * (IF up THEN q + 1 ELSE q) * 10

----------------------------------------------------------------------------
(* Python values passed as delay_minutes.  A float is counted in halves    *)
(* (v = 61 is 30.5); str and NoneType carry no number.                     *)

PyInt(n) == [type |-> "int", v |-> n]
PyFloat(h) == [type |-> "float", v |-> h]
PyBool(b) == [type |-> "bool", v |-> b]
PyStr == [type |-> "str", v |-> 0]
PyNone == [type |-> "NoneType", v |-> 0]
PyNaN == [type |-> "float_nan", v |-> 0]

\* isinstance(x, (int, float)): bool is a subclass of int
isinstance_int_float(x) == x.type \in {"int", "float", "bool", "float_nan"}

\* x < 0 for a number (NaN compares false)
less_than_zero(x) == x.type \in {"int", "float", "bool"} /\ x.v < 0

\* int(x) for a non-negative number: truncation
int_of(x) == IF x.type = "float" THEN x.v \div 2 ELSE x.v

DelayInputs ==
    { PyInt(n) : n \in (-2 .. MaxDelay) \cup {HugeDelay} }
    \cup { PyFloat(h) : h \in {-1, 1, 61, 121, 243} }
    \cup { PyBool(b) : b \in {0, 1} }
    \cup { PyStr, PyNone, PyNaN }

ServiceTypes == {"standard", "express"}

----------------------------------------------------------------------------
(* PenaltyCalculator: penalty_rules.py *)

apply_no_penalty_rule(th, am, delay_minutes, service_type) ==
    [delay_minutes |-> delay_minutes,
     penalty_applied |-> FALSE,
     penalty_amount |-> 0,
     rule_applied |-> "no_penalty_threshold",
     rule_description |-> <<"Delay <=", th.no_penalty_max>>,
     calculation_breakdown |->
         [base_amount |-> 0, variable_amount |-> 0, total |-> 0],
     service_type |-> service_type,
     threshold_exceeded |-> FALSE]

\* apply_low_penalty_rule reporting the configured amount without rounding it
apply_low_penalty_rule_unrounded(th, am, delay_minutes, service_type) ==
    [delay_minutes |-> delay_minutes,
     penalty_applied |-> TRUE,
     penalty_amount |-> am.fixed_penalty,
     rule_applied |-> "fixed_penalty_rule",
     rule_description |-> <<"Delay", th.low_penalty_min, th.low_penalty_max>>,
     calculation_breakdown |->
         [base_amount |-> am.fixed_penalty, variable_amount |-> 0,
          total |-> am.fixed_penalty],
     service_type |-> service_type,
     threshold_exceeded |-> TRUE,
     exceeded_by_minutes |-> delay_minutes - th.no_penalty_max]

apply_low_penalty_rule(th, am, delay_minutes, service_type) ==
    LET penalty_amount == am.fixed_penalty
    IN  [delay_minutes |-> delay_minutes,
         penalty_applied |-> TRUE,
         penalty_amount |-> quantize_half_up(penalty_amount),
         rule_applied |-> "fixed_penalty_rule",
         rule_description |-> <<"Delay", th.low_penalty_min, th.low_penalty_max>>,
         calculation_breakdown |->
             [base_amount |-> penalty_amount,
              variable_amount |-> 0,
              total |-> penalty_amount],
         service_type |-> service_type,
         threshold_exceeded |-> TRUE,
         exceeded_by_minutes |-> delay_minutes - th.no_penalty_max]

\* apply_high_penalty_rule leaving the base charge out of the amount
apply_high_penalty_rule_no_base(th, am, delay_minutes, service_type) ==
    LET overage_minutes == delay_minutes - th.low_penalty_max
        variable_amount == am.variable_rate * overage_minutes
    IN  [delay_minutes |-> delay_minutes,
         penalty_applied |-> TRUE,
         penalty_amount |-> quantize_half_up(variable_amount),
         rule_applied |-> "progressive_penalty_rule",
         rule_description |-> <<"Delay >", th.low_penalty_max>>,
         calculation_breakdown |->
             [base_amount |-> am.high_penalty_base,
              variable_amount |-> quantize_default(variable_amount),
              per_minute_rate |-> am.variable_rate,
              overage_minutes |-> overage_minutes,
              total |-> quantize_default(variable_amount)],
         service_type |-> service_type,
         threshold_exceeded |-> TRUE,
         exceeded_by_minutes |-> delay_minutes - th.no_penalty_max,
         critical_delay |-> delay_minutes > 120]

\* apply_high_penalty_rule counting the overage from high_penalty_min
apply_high_penalty_rule_from_min(th, am, delay_minutes, service_type) ==
    LET overage_minutes == delay_minutes - th.high_penalty_min
        total_amount == am.high_penalty_base + am.variable_rate * overage_minutes
    IN  [delay_minutes |-> delay_minutes,
         penalty_applied |-> TRUE,
         penalty_amount |-> quantize_half_up(total_amount),
         rule_applied |-> "progressive_penalty_rule",
         rule_description |-> <<"Delay >", th.low_penalty_max>>,
         calculation_breakdown |->
             [base_amount |-> am.high_penalty_base,
              variable_amount |-> quantize_default(am.variable_rate * overage_minutes),
              per_minute_rate |-> am.variable_rate,
              overage_minutes |-> overage_minutes,
              total |-> quantize_default(total_amount)],
         service_type |-> service_type,
         threshold_exceeded |-> TRUE,
         exceeded_by_minutes |-> delay_minutes - th.no_penalty_max,
         critical_delay |-> delay_minutes > 120]

apply_high_penalty_rule(th, am, delay_minutes, service_type) ==
    LET overage_minutes == delay_minutes - th.low_penalty_max
        base_amount == am.high_penalty_base
        variable_rate == am.variable_rate
        variable_amount == variable_rate * overage_minutes
        total_amount == base_amount + variable_amount
    IN  [delay_minutes |-> delay_minutes,
         penalty_applied |-> TRUE,
         penalty_amount |-> quantize_half_up(total_amount),
         rule_applied |-> "progressive_penalty_rule",
         rule_description |-> <<"Delay >", th.low_penalty_max>>,
         calculation_breakdown |->
             [base_amount |-> base_amount,
              variable_amount |-> quantize_default(variable_amount),
              per_minute_rate |-> variable_rate,
              overage_minutes |-> overage_minutes,
              total |-> quantize_default(total_amount)],
         service_type |-> service_type,
         threshold_exceeded |-> TRUE,
         exceeded_by_minutes |-> delay_minutes - th.no_penalty_max,
         critical_delay |-> delay_minutes > 120]

Returned(value) == [status |-> "returned", value |-> value]
Raised(exc) == [status |-> "raised", exc |-> exc]

\* invalid_delay without the test for a negative number
invalid_delay_type_only(x) == ~isinstance_int_float(x)

\* the input check of calculate: line 33
invalid_delay(x) == ~isinstance_int_float(x) \/ less_than_zero(x)

\* the tier of a delay: the comparisons of lines 39 and 42
tier_strict(th, delay_minutes) ==
    IF delay_minutes < th.no_penalty_max THEN "no_penalty"
    ELSE IF delay_minutes <= th.low_penalty_max THEN "low_penalty"
    ELSE "high_penalty"

tier(th, delay_minutes) ==
    IF delay_minutes <= th.no_penalty_max THEN "no_penalty"
    ELSE IF delay_minutes <= th.low_penalty_max THEN "low_penalty"
    ELSE "high_penalty"

\* the result of calculate, or the exception it lets through
calculate(th, am, x, service_type) ==
    IF invalid_delay(x) THEN Raised("ValueError")
    ELSE IF x.type = "float_nan" THEN Raised("ValueError")
    ELSE LET delay_minutes == int_of(x)
         IN  IF tier(th, delay_minutes) = "no_penalty"
                 THEN Returned(apply_no_penalty_rule(th, am, delay_minutes, service_type))
             ELSE IF tier(th, delay_minutes) = "low_penalty"
                 THEN Returned(apply_low_penalty_rule(th, am, delay_minutes, service_type))
             ELSE Returned(apply_high_penalty_rule(th, am, delay_minutes, service_type))

\* the logger lines of calculate and of the rule it applied
calculate_logged(r) ==
    IF r.status = "raised" THEN << [level |-> "error", msg |-> "Penalty calculation failed"] >>
    ELSE IF r.value.rule_applied = "no_penalty_threshold"
        THEN << [level |-> "info", msg |-> "No penalty applied"] >>
    ELSE IF r.value.rule_applied = "fixed_penalty_rule"
        THEN << [level |-> "info", msg |-> "Fixed penalty applied"] >>
    ELSE << [level |-> "info", msg |-> "Progressive penalty applied"] >>

Calculate(x, service_type) ==
    /\ call' = [op |-> "calculate", delay_minutes |-> x, service_type |-> service_type]
    /\ ret' = calculate(thresholds, amounts, x, service_type)
    /\ logged' = calculate_logged(ret')
    /\ UNCHANGED <<calcVars, threads, clock, engineVars, noticeVars>>

----------------------------------------------------------------------------
(* The calculator on its own: every Rule Config, every delay *)

NoCall == [op |-> "none"]
NoRet == [status |-> "none"]
NoThreads == << >>

InitRest ==
    /\ clock = 0
    /\ call = NoCall
    /\ ret = NoRet
    /\ logged = << >>
    /\ decision_logs = << >>
    /\ notification_log = << >>
    /\ email_enabled = TRUE
    /\ sent_emails = << >>
    /\ sms_enabled = TRUE
    /\ sent_sms = << >>
    /\ threads = NoThreads

Init ==
    /\ thresholds \in ThresholdConfigs
    /\ amounts \in AmountConfigs
    /\ InitRest

Next == \E x \in DelayInputs, s \in ServiceTypes : Calculate(x, s)

Spec == Init /\ [][Next]_vars

----------------------------------------------------------------------------
(* Properties of the calculator *)

\* the last operation was calculate on the Python int d
CalculatedInt == call.op = "calculate" /\ call.delay_minutes.type = "int"

IntDelay == call.delay_minutes.v

DefaultConfig ==
    thresholds = PENALTY_THRESHOLDS /\ amounts = PENALTY_AMOUNTS

\* cents (a multiple of 10 mills) is the amount x rounded half-up, the tie
\* going away from zero as ROUND_HALF_UP does
RoundsHalfUpTo(x, cents) ==
    /\ cents % 10 = 0
    /\ IF x >= 0 THEN cents - 5 <= x /\ x < cents + 5
                 ELSE cents - 5 < x /\ x <= cents + 5

\* C1: for every integer delay in [0, no_penalty_max] calculate returns a
\* result with penalty_applied false, penalty_amount 0.00, rule_applied
\* no_penalty_threshold and an all-zero breakdown.
C1_NoPenaltyTier ==
    (CalculatedInt /\ 0 <= IntDelay /\ IntDelay <= thresholds.no_penalty_max)
        => /\ ret.status = "returned"
           /\ ret.value.penalty_applied = FALSE
           /\ ret.value.penalty_amount = 0
           /\ ret.value.rule_applied = "no_penalty_threshold"
           /\ ret.value.calculation_breakdown.base_amount = 0
           /\ ret.value.calculation_breakdown.variable_amount = 0
           /\ ret.value.calculation_breakdown.total = 0

\* calculate(30) under the shipped thresholds: the last minute without penalty
C1_Witness ==
    /\ CalculatedInt /\ IntDelay = thresholds.no_penalty_max /\ IntDelay = 30
    /\ ret.status = "returned" /\ ret.value.penalty_applied = FALSE

\* C2: for every integer delay in (no_penalty_max, low_penalty_max] calculate
\* returns penalty_applied true, rule_applied fixed_penalty_rule, the
\* fixed_penalty rounded half-up to cents and exceeded_by_minutes =
\* delay_minutes - no_penalty_max; calculate(45) under the shipped
\* configuration gives 500.00 and 15.
C2_FixedTier ==
    (CalculatedInt /\ thresholds.no_penalty_max < IntDelay
                   /\ 0 <= IntDelay /\ IntDelay <= thresholds.low_penalty_max)
        => /\ ret.status = "returned"
           /\ ret.value.penalty_applied = TRUE
           /\ ret.value.rule_applied = "fixed_penalty_rule"
           /\ RoundsHalfUpTo(amounts.fixed_penalty, ret.value.penalty_amount)
           /\ ret.value.exceeded_by_minutes = IntDelay - thresholds.no_penalty_max
           /\ (DefaultConfig /\ IntDelay = 45)
                 => /\ ret.value.penalty_amount = 500000
                    /\ ret.value.exceeded_by_minutes = 15

\* a fixed penalty with a third decimal, rounded up to the next cent
C2_Witness ==
    /\ CalculatedInt /\ IntDelay = 45 /\ amounts.fixed_penalty = 500005
    /\ ret.status = "returned" /\ ret.value.rule_applied = "fixed_penalty_rule"
    /\ ret.value.penalty_amount = 500010

\* C3: for every integer delay above low_penalty_max, however large,
\* calculate returns rule_applied progressive_penalty_rule, overage_minutes =
\* delay_minutes - low_penalty_max and high_penalty_base + variable_rate *
\* overage_minutes rounded half-up to cents; calculate(75) under the shipped
\* configuration gives overage 15, variable amount 375.00 and 1375.00.
C3_ProgressiveTier ==
    (CalculatedInt /\ 0 <= IntDelay /\ IntDelay > thresholds.low_penalty_max
                   /\ IntDelay > thresholds.no_penalty_max)
        => /\ ret.status = "returned"
           /\ ret.value.rule_applied = "progressive_penalty_rule"
           /\ ret.value.calculation_breakdown.overage_minutes
                 = IntDelay - thresholds.low_penalty_max
           /\ RoundsHalfUpTo(amounts.high_penalty_base + amounts.variable_rate
                                 * (IntDelay - thresholds.low_penalty_max),
                             ret.value.penalty_amount)
           /\ (DefaultConfig /\ IntDelay = 75)
                 => /\ ret.value.calculation_breakdown.overage_minutes = 15
                    /\ ret.value.calculation_breakdown.variable_amount = 375000
                    /\ ret.value.calculation_breakdown.total = 1375000
                    /\ ret.value.penalty_amount = 1375000

\* a delay far beyond anything the API layer accepts
C3_Witness ==
    /\ CalculatedInt /\ IntDelay = HugeDelay /\ DefaultConfig
    /\ ret.status = "returned"
    /\ ret.value.penalty_amount = 1000000 + 25000 * (HugeDelay - 60)

\* C4: in every result of calculate, whatever the tier and the amounts of
\* the Rule Config, penalty_amount equals calculation_breakdown.total.
C4_AmountEqualsTotal ==
    (call.op = "calculate" /\ ret.status = "returned")
        => ret.value.penalty_amount = ret.value.calculation_breakdown.total

\* the value of critical_delay in a result, false when the key is missing
CriticalDelayOf(result) ==
    IF "critical_delay" \in DOMAIN result THEN result.critical_delay ELSE FALSE

\* C5: for every non-negative delay and every Rule Config the result has
\* critical_delay true exactly when delay_minutes > 120.
C5_CriticalIffOver120 ==
    (call.op = "calculate" /\ ret.status = "returned")
        => (CriticalDelayOf(ret.value) <=> ret.value.delay_minutes > 120)

\* two calculations in a row, of d1 and then of d2 >= d1
IsResult(c, r) == c.op = "calculate" /\ r.status = "returned"

NonDecreasingStep ==
    (IsResult(call, ret) /\ IsResult(call', ret')
        /\ ret.value.delay_minutes <= ret'.value.delay_minutes)
        => ret.value.penalty_amount <= ret'.value.penalty_amount

\* C6 as stated: under any Rule Config, d1 <= d2 implies
\* calculate(d1).penalty_amount <= calculate(d2).penalty_amount.
C6_MonotoneAnyConfig == [][NonDecreasingStep]_vars

\* the amounts of the Rule Config rise from tier to tier
AmountsOrdered ==
    /\ 0 <= amounts.fixed_penalty
    /\ 0 <= amounts.variable_rate
    /\ amounts.fixed_penalty <= amounts.high_penalty_base + amounts.variable_rate

\* C6 amended: under a Rule Config with 0 <= fixed_penalty <=
\* high_penalty_base + variable_rate and variable_rate >= 0, d1 <= d2 implies
\* calculate(d1).penalty_amount <= calculate(d2).penalty_amount.
C6_MonotoneOrderedConfig == [][AmountsOrdered => NonDecreasingStep]_vars

\* the first minute of the progressive tier, under ordered amounts with a
\* third decimal: the amount has risen over the fixed tier's
C6_Witness ==
    /\ AmountsOrdered /\ amounts.fixed_penalty = 500005
    /\ IsResult(call, ret)
    /\ ret.value.delay_minutes = thresholds.low_penalty_max + 1
    /\ ret.value.rule_applied = "progressive_penalty_rule"
    /\ ret.value.penalty_amount > quantize_half_up(amounts.fixed_penalty)

\* delay_minutes is a negative number, or no number at all
NegativeOrNonNumeric(x) ==
    \/ x.type \in {"str", "NoneType"}
    \/ (x.type \in {"int", "float"} /\ x.v < 0)

\* C7: calculate on a negative or non-numeric delay_minutes produces no
\* result: it logs the error and raises it to the caller.
C7_InvalidInputRaises ==
    (call.op = "calculate" /\ NegativeOrNonNumeric(call.delay_minutes))
        => /\ ret.status = "raised"
           /\ ret.exc = "ValueError"
           /\ \E i \in DOMAIN logged : logged[i].level = "error"

\* calculate(-1)
C7_Witness ==
    /\ call.op = "calculate" /\ call.delay_minutes = PyInt(-1)
    /\ ret.status = "raised"

----------------------------------------------------------------------------
(* AIClient: ai_client.py *)

\* a penalty amount as a Python float, counted in mills
PyAmount(m) == [type |-> "float", mills |-> m]

\* format(x, ',.2f') is defined for numbers only
can_format_2f(x) == x.type \in {"int", "float", "bool", "float_nan"}

\* delay <= n; a float is counted in halves, NaN compares false
delay_le(x, n) ==
    IF x.type = "float" THEN x.v <= 2 * n
    ELSE IF x.type = "float_nan" THEN FALSE
    ELSE x.v <= n

\* the key of the phrasing family: lines 88 to 93
family_key(delay) ==
    IF delay_le(delay, 30) THEN "no_penalty"
    ELSE IF delay_le(delay, 60) THEN "low_penalty"
    ELSE "high_penalty"

\* the number of words of each phrasing, in the order of the source
phrasing_words ==
    [no_penalty |-> <<27, 23, 24>>,
     low_penalty |-> <<27, 21, 20>>,
     high_penalty |-> <<24, 22, 20>>]

\* the phrasings that print the penalty amount
prints_penalty == {<<"low_penalty", 1>>, <<"low_penalty", 2>>,
                   <<"high_penalty", 1>>, <<"high_penalty", 3>>}

\* one phrasing with its values filled in
phrasing(key, choice, delay, penalty) ==
    IF <<key, choice>> \in prints_penalty
        THEN [family |-> key, phrasing |-> choice, words |-> phrasing_words[key][choice],
              delay |-> delay, penalty |-> penalty]
    ELSE [family |-> key, phrasing |-> choice, words |-> phrasing_words[key][choice],
          delay |-> delay]

\* _simulate_ai_response: all nine phrasings are formatted first, then the
\* delay is compared; choice is what random.choice picks
simulate_ai_response(delay, penalty, rule, choice) ==
    IF ~can_format_2f(penalty)
        THEN Raised(IF penalty.type = "str" THEN "ValueError: Unknown format code"
                    ELSE "TypeError: unsupported format string")
    ELSE IF ~isinstance_int_float(delay)
        THEN Raised("TypeError: '<=' not supported")
    ELSE Returned(phrasing(family_key(delay), choice, delay, penalty))

fallback_text == [family |-> "fallback", words |-> 7]

\* a dict, as against None or another value without .get
is_dict(x) == ("type" \notin DOMAIN x) \/ x.type = "dict"

\* context.get(key, default)
dict_get(context, key, default) ==
    IF key \in DOMAIN context THEN context[key] ELSE default

\* the three reads of the context and the simulated response: lines 24 to 29
explanation_of(context, choice) ==
    IF ~is_dict(context) THEN Raised("AttributeError: no attribute 'get'")
    ELSE simulate_ai_response(dict_get(context, "delay_minutes", PyInt(0)),
                              dict_get(context, "penalty_amount", PyInt(0)),
                              dict_get(context, "rule_applied", ""), choice)

\* generate_explanation reporting its usual confidence in the fallback too
generate_explanation_confident_fallback(context, choice, now) ==
    LET explanation == explanation_of(context, choice)
    IN  IF explanation.status = "returned"
            THEN [explanation |-> explanation.value, confidence_score |-> 95,
                  generated_at |-> now, model_used |-> "claude-3-haiku",
                  tokens_used |-> (explanation.value.words * 4) \div 3]
        ELSE [explanation |-> fallback_text, confidence_score |-> 95,
              generated_at |-> now, model_used |-> "claude-3-haiku",
              error |-> explanation.exc]

\* generate_explanation on a context; now is the reading of the clock.
\* confidence_score is counted in hundredths.
generate_explanation(context, choice, now) ==
    LET explanation == explanation_of(context, choice)
    IN  IF explanation.status = "returned"
            THEN [explanation |-> explanation.value,
                  confidence_score |-> 95,
                  generated_at |-> now,
                  model_used |-> "claude-3-haiku",
                  tokens_used |-> (explanation.value.words * 4) \div 3]
        ELSE [explanation |-> fallback_text,
              confidence_score |-> 0,
              generated_at |-> now,
              model_used |-> "claude-3-haiku",
              error |-> explanation.exc]

generate_explanation_logged(explanation) ==
    IF "error" \in DOMAIN explanation
        THEN << [level |-> "error", msg |-> "AI explanation generation failed"] >>
    ELSE << >>

----------------------------------------------------------------------------
(* Python slices of a list *)

Min(a, b) == IF a < b THEN a ELSE b
Max(a, b) == IF a > b THEN a ELSE b

\* seq[start:]
slice_from(seq, start) ==
    LET n == Len(seq)
        s == IF start < 0 THEN Max(n + start, 0) ELSE Min(start, n)
    IN  SubSeq(seq, s + 1, n)

----------------------------------------------------------------------------
(* DecisionEngine: decision_engine.py *)

MAX_DECISION_LOGS == 1000

\* _log_decision forgetting the oldest entries only past twice the limit
log_decision_late_trim(logs, decision_type, context, ai_response, now) ==
    LET appended == Append(logs, [timestamp |-> now, decision_type |-> decision_type,
                                  context |-> context, ai_response |-> ai_response,
                                  system_version |-> "1.0.0"])
    IN  IF Len(appended) > 2 * MAX_DECISION_LOGS
            THEN slice_from(appended, -MAX_DECISION_LOGS)
        ELSE appended

\* _log_decision keeping the entry out of the log when the explanation is
\* the fallback
log_decision_skip_fallback(logs, decision_type, context, ai_response, now) ==
    IF "error" \in DOMAIN ai_response THEN logs
    ELSE Append(logs, [timestamp |-> now, decision_type |-> decision_type,
                       context |-> context, ai_response |-> ai_response,
                       system_version |-> "1.0.0"])

\* _log_decision: the list after the entry is appended and the list is cut
log_decision(logs, decision_type, context, ai_response, now) ==
    LET log_entry == [timestamp |-> now,
                      decision_type |-> decision_type,
                      context |-> context,
                      ai_response |-> ai_response,
                      system_version |-> "1.0.0"]
        appended == Append(logs, log_entry)
    IN  IF Len(appended) > MAX_DECISION_LOGS
            THEN slice_from(appended, -MAX_DECISION_LOGS)
        ELSE appended

log_decision_logged == << [level |-> "info", msg |-> "Decision logged"] >>

\* explain_penalty; the clock is read for the context, for the explanation
\* and for the log entry
ExplainPenalty(delay_minutes, penalty_amount, rule_applied, choice) ==
    LET context == [delay_minutes |-> delay_minutes,
                    penalty_amount |-> penalty_amount,
                    rule_applied |-> rule_applied,
                    decision_type |-> "penalty_applied",
                    timestamp |-> clock]
        explanation == generate_explanation(context, choice, clock + 1)
    IN  /\ call' = [op |-> "explain_penalty", delay_minutes |-> delay_minutes,
                    penalty_amount |-> penalty_amount, rule_applied |-> rule_applied]
        /\ decision_logs' = log_decision(decision_logs, "penalty_explanation",
                                         context, explanation, clock + 2)
        /\ ret' = Returned(explanation)
        /\ logged' = generate_explanation_logged(explanation) \o log_decision_logged
        /\ clock' = clock + 3
        /\ UNCHANGED <<calcVars, threads, noticeVars>>

\* explain_no_penalty
ExplainNoPenalty(delay_minutes, choice) ==
    LET context == [delay_minutes |-> delay_minutes,
                    penalty_amount |-> PyAmount(0),
                    rule_applied |-> "no_penalty_threshold",
                    decision_type |-> "no_penalty",
                    timestamp |-> clock]
        explanation == generate_explanation(context, choice, clock + 1)
    IN  /\ call' = [op |-> "explain_no_penalty", delay_minutes |-> delay_minutes]
        /\ decision_logs' = log_decision(decision_logs, "no_penalty_explanation",
                                         context, explanation, clock + 2)
        /\ ret' = Returned(explanation)
        /\ logged' = generate_explanation_logged(explanation) \o log_decision_logged
        /\ clock' = clock + 3
        /\ UNCHANGED <<calcVars, threads, noticeVars>>

\* get_decision_logs
get_decision_logs(logs, limit) ==
    IF logs # << >> THEN slice_from(logs, -limit) ELSE << >>

GetDecisionLogs(limit) ==
    /\ call' = [op |-> "get_decision_logs", limit |-> limit]
    /\ ret' = Returned(get_decision_logs(decision_logs, limit))
    /\ logged' = << >>
    /\ UNCHANGED <<calcVars, threads, clock, engineVars, noticeVars>>

----------------------------------------------------------------------------
(* Python strings.  A str the code only inspects is given by what the code *)
(* looks at: its length and whether "@" and "." occur in it.  A str the    *)
(* code builds is the text it is made of, the number of its leading        *)
(* characters that are kept and the number of dots appended.               *)

Text(s, len, at, dot) ==
    [type |-> "str", s |-> s, len |-> len, has_at |-> at, has_dot |-> dot]

\* an int too long to write down, given by the number of its digits
LongInt(digits) == [type |-> "int", digits |-> digits]

\* bool(x) of a recipient field
truthy(x) ==
    IF x.type = "NoneType" THEN FALSE
    ELSE IF x.type = "str" THEN x.len > 0
    ELSE IF "digits" \in DOMAIN x THEN TRUE
    ELSE x.v # 0

RECURSIVE Digits(_)
Digits(n) == IF n < 10 THEN 1 ELSE 1 + Digits(n \div 10)

\* len(str(x))
str_len(x) ==
    IF "digits" \in DOMAIN x THEN x.digits
    ELSE IF x.type = "int" THEN Digits(Abs(x.v)) + (IF x.v < 0 THEN 1 ELSE 0)
    ELSE IF x.type = "float" THEN Digits(Abs(x.v) \div 2) + 2 + (IF x.v < 0 THEN 1 ELSE 0)
    ELSE IF x.type = "bool" THEN (IF x.v = 1 THEN 4 ELSE 5)
    ELSE IF x.type = "NoneType" THEN 4
    ELSE IF x.type = "float_nan" THEN 3
    ELSE x.len

\* the digits before the decimal point of a number
int_digits(x) ==
    IF "digits" \in DOMAIN x THEN x.digits
    ELSE IF "mills" \in DOMAIN x THEN Digits(Abs(x.mills) \div 1000)
    ELSE IF x.type = "float" THEN Digits(Abs(x.v) \div 2)
    ELSE Digits(Abs(x.v))

\* len(format(x, ',.2f')): digits, a comma every three of them, ".dd"
format_2f_len(x) ==
    IF x.type = "float_nan" THEN 3
    ELSE int_digits(x) + ((int_digits(x) - 1) \div 3) + 3

\* x > 0 for a number
greater_than_zero(x) ==
    IF x.type = "float_nan" THEN FALSE
    ELSE IF "digits" \in DOMAIN x THEN TRUE
    ELSE IF "mills" \in DOMAIN x THEN x.mills > 0
    ELSE x.v > 0

py_str(of, len) == [of |-> of, shown |-> len, dots |-> 0]

\* s[:k] of a str without appended dots
str_prefix(str, k) == [str EXCEPT !.shown = Min(@, k)]

\* s + "..."
str_dots(str) == [str EXCEPT !.dots = @ + 3]

\* len(s)
str_length(str) == str.shown + str.dots

----------------------------------------------------------------------------
(* EmailService: email.py.  send_notice gives the result, the history      *)
(* after the call, the number of clock readings and the logger lines.      *)

EmailFailure(error, sent, now, lines) ==
    [result |-> [success |-> FALSE, error |-> error, timestamp |-> now],
     sent |-> sent, readings |-> 1, logged |-> lines]

email_send_notice(enabled, sent, to_email, subject, body, now) ==
    IF ~enabled
        THEN EmailFailure("Email service is disabled", sent, now, << >>)
    ELSE IF to_email.type # "str"
        THEN EmailFailure("TypeError: argument is not iterable", sent, now,
                          << [level |-> "error", msg |-> "Failed to send email"] >>)
    ELSE IF ~to_email.has_at \/ ~to_email.has_dot
        THEN EmailFailure("Invalid email address", sent, now, << >>)
    ELSE LET email_record ==
                 [to |-> to_email,
                  subject |-> subject,
                  body_preview |-> IF str_length(body) > 100
                                       THEN str_dots(str_prefix(body, 100))
                                   ELSE body,
                  timestamp |-> now,
                  status |-> "sent",
                  message_id |-> <<"EMAIL", now + 1>>]
         IN  [result |-> [success |-> TRUE,
                          message_id |-> email_record.message_id,
                          timestamp |-> email_record.timestamp,
                          note |-> "Simulated email sent."],
              sent |-> Append(sent, email_record),
              readings |-> 2,
              logged |-> << [level |-> "info", msg |-> "Email sent"] >>]

----------------------------------------------------------------------------
(* SMSService: sms.py *)

SmsFailure(error, sent, now, lines) ==
    [result |-> [success |-> FALSE, error |-> error, timestamp |-> now],
     sent |-> sent, readings |-> 1, logged |-> lines]

\* send_notice keeping 160 characters before the dots
sms_send_notice_cut_at_160(enabled, sent, to_phone, message, now) ==
    IF ~enabled
        THEN SmsFailure("SMS service is disabled", sent, now, << >>)
    ELSE IF ~truthy(to_phone)
        THEN SmsFailure("Invalid phone number", sent, now, << >>)
    ELSE IF to_phone.type # "str"
        THEN SmsFailure("TypeError: object has no len()", sent, now,
                        << [level |-> "error", msg |-> "Failed to send SMS"] >>)
    ELSE IF to_phone.len < 10
        THEN SmsFailure("Invalid phone number", sent, now, << >>)
    ELSE LET cut == IF str_length(message) > 160
                        THEN str_dots(str_prefix(message, 160))
                    ELSE message
             sms_record ==
                 [to |-> to_phone,
                  message |-> cut,
                  timestamp |-> now,
                  status |-> "sent",
                  message_id |-> <<"SMS", now + 1>>,
                  characters |-> str_length(cut)]
         IN  [result |-> [success |-> TRUE,
                          message_id |-> sms_record.message_id,
                          timestamp |-> sms_record.timestamp,
                          note |-> "Simulated SMS sent."],
              sent |-> Append(sent, sms_record),
              readings |-> 2,
              logged |-> << [level |-> "info", msg |-> "SMS sent"] >>]

\* send_notice: lines 23 to 81
sms_send_notice(enabled, sent, to_phone, message, now) ==
    IF ~enabled
        THEN SmsFailure("SMS service is disabled", sent, now, << >>)
    ELSE IF ~truthy(to_phone)
        THEN SmsFailure("Invalid phone number", sent, now, << >>)
    ELSE IF to_phone.type # "str"
        THEN SmsFailure("TypeError: object has no len()", sent, now,
                        << [level |-> "error", msg |-> "Failed to send SMS"] >>)
    ELSE IF to_phone.len < 10
        THEN SmsFailure("Invalid phone number", sent, now, << >>)
    ELSE LET cut == IF str_length(message) > 160
                        THEN str_dots(str_prefix(message, 157))
                    ELSE message
             sms_record ==
                 [to |-> to_phone,
                  message |-> cut,
                  timestamp |-> now,
                  status |-> "sent",
                  message_id |-> <<"SMS", now + 1>>,
                  characters |-> str_length(cut)]
         IN  [result |-> [success |-> TRUE,
                          message_id |-> sms_record.message_id,
                          timestamp |-> sms_record.timestamp,
                          note |-> "Simulated SMS sent."],
              sent |-> Append(sent, sms_record),
              readings |-> 2,
              logged |-> << [level |-> "info", msg |-> "SMS sent"] >>]

----------------------------------------------------------------------------
(* NoticeSender: send_notice.py *)

MAX_NOTIFICATION_LOGS == 1000

\* a recipient_info dict; a key that is missing is None to dict.get
Recipient(name, email, phone) ==
    [type |-> "dict", name |-> name, email |-> email, phone |-> phone]

\* a calculation_result dict, by the three keys the sender reads
CalculationResult(delay_minutes, penalty_amount, rule_applied) ==
    [type |-> "dict", delay_minutes |-> delay_minutes,
     penalty_amount |-> penalty_amount, rule_applied |-> rule_applied]

\* len(rule_applied)
rule_len(rule_applied) ==
    IF rule_applied = "no_penalty_threshold" THEN 20
    ELSE IF rule_applied = "fixed_penalty_rule" THEN 18
    ELSE IF rule_applied = "progressive_penalty_rule" THEN 24
    ELSE 0

\* _prepare_notice_content; the date is printed with an eight-letter month
prepare_notice_content(delay_minutes, penalty_amount, rule_applied, recipient_info, now) ==
    IF ~can_format_2f(penalty_amount)
        THEN Raised("TypeError: '>' not supported")
    ELSE IF recipient_info.type # "dict"
        THEN Raised("AttributeError: no attribute 'get'")
    ELSE LET penalised == greater_than_zero(penalty_amount)
             dlen == str_len(delay_minutes)
             plen == format_2f_len(penalty_amount)
             name == IF recipient_info.name.type = "NoneType"
                         THEN Text("Valued Partner", 14, FALSE, FALSE)
                     ELSE recipient_info.name
             subject ==
                 IF penalised
                     THEN py_str([template |-> "Penalty Notice", delay |-> delay_minutes,
                                  penalty |-> penalty_amount], 31 + plen + dlen)
                 ELSE py_str([template |-> "Delay Notification", delay |-> delay_minutes],
                             42 + dlen)
             email_body ==
                 py_str([template |-> "AI-BOS Notification", name |-> name, date |-> now,
                         delay |-> delay_minutes, rule |-> rule_applied,
                         penalty |-> penalty_amount],
                        1917 + str_len(name) + 27 + dlen + rule_len(rule_applied) + plen)
             sms_message ==
                 IF penalised
                     THEN py_str([template |-> "AI-BOS: penalty", delay |-> delay_minutes,
                                  penalty |-> penalty_amount], 55 + dlen + plen)
                 ELSE py_str([template |-> "AI-BOS: no penalty", delay |-> delay_minutes],
                             65 + dlen)
         IN  Returned([email_subject |-> subject,
                       email_body |-> email_body,
                       sms_message |-> sms_message])

\* the entry _log_notification appends
notification_entry(calculation_result, recipient_info, notifications_sent, now) ==
    [timestamp |-> now,
     delay_minutes |-> calculation_result.delay_minutes,
     penalty_amount |-> calculation_result.penalty_amount,
     recipient |-> [name |-> recipient_info.name,
                    email |-> recipient_info.email,
                    phone |-> recipient_info.phone],
     notifications |-> notifications_sent,
     rule_applied |-> calculation_result.rule_applied]

\* _log_notification never cutting the list
log_notification_no_trim(log, calculation_result, recipient_info, notifications_sent, now) ==
    Append(log, notification_entry(calculation_result, recipient_info,
                                   notifications_sent, now))

\* _log_notification: the list after the entry is appended and the list is cut
log_notification(log, calculation_result, recipient_info, notifications_sent, now) ==
    LET appended == Append(log, notification_entry(calculation_result, recipient_info,
                                                   notifications_sent, now))
    IN  IF Len(appended) > MAX_NOTIFICATION_LOGS
            THEN slice_from(appended, -MAX_NOTIFICATION_LOGS)
        ELSE appended

\* the str f"NOTICE_{...}" of line 80, by the clock reading it prints
notice_id_of(now) == [type |-> "str", prefix |-> "NOTICE", at |-> now]

\* the except block giving its outcome a notice_id
failed_outcome_with_id(error) ==
    [notice_id |-> notice_id_of(0),
     status |-> "failed",
     error |-> error,
     notifications |-> [email |-> FALSE, sms |-> FALSE]]

\* the outcome of the except block
failed_outcome(error) ==
    [notice_id |-> PyNone,
     status |-> "failed",
     error |-> error,
     notifications |-> [email |-> FALSE, sms |-> FALSE]]

\* the except block also writing the failure to the Notification Log
SendPenaltyNoticeFailedLogged(calculation_result, recipient_info, error) ==
    /\ call' = [op |-> "send_penalty_notice", calculation_result |-> calculation_result,
                recipient_info |-> recipient_info, email_attempted |-> FALSE,
                sms_attempted |-> FALSE]
    /\ ret' = Returned(failed_outcome(error))
    /\ logged' = << [level |-> "error", msg |-> "Failed to send notice"] >>
    /\ notification_log' = Append(notification_log,
                                  [timestamp |-> clock, status |-> "failed",
                                   error |-> error])
    /\ UNCHANGED <<calcVars, threads, clock, engineVars, email_enabled,
                   sent_emails, sms_enabled, sent_sms>>

\* send_penalty_notice on a calculation_result that is no dict: .get fails
SendPenaltyNoticeFailed(calculation_result, recipient_info, error) ==
    /\ call' = [op |-> "send_penalty_notice", calculation_result |-> calculation_result,
                recipient_info |-> recipient_info, email_attempted |-> FALSE,
                sms_attempted |-> FALSE]
    /\ ret' = Returned(failed_outcome(error))
    /\ logged' = << [level |-> "error", msg |-> "Failed to send notice"] >>
    /\ UNCHANGED <<calcVars, threads, clock, engineVars, noticeVars>>

\* a channel tried whenever its transport is enabled, contact or not
channel_wanted_if_enabled(contact, enabled) == enabled

\* the condition of lines 50 and 62: the contact is there and the transport
\* is enabled
channel_wanted(contact, enabled) == truthy(contact) /\ enabled

\* notifications_sent with the sms flag also asking for the email's success
notifications_of_both(try_email, email_result, try_sms, sms_result, stamp) ==
    [email |-> IF try_email THEN email_result.success ELSE FALSE,
     sms |-> IF try_sms
                 THEN sms_result.success /\ try_email /\ email_result.success
             ELSE FALSE,
     timestamp |-> stamp]

\* notifications_sent: lines 43 to 47, 56 and 67
notifications_of(try_email, email_result, try_sms, sms_result, stamp) ==
    [email |-> IF try_email THEN email_result.success ELSE FALSE,
     sms |-> IF try_sms THEN sms_result.success ELSE FALSE,
     timestamp |-> stamp]

\* send_penalty_notice from the prepared content on
SendPenaltyNoticeSent(calculation_result, recipient_info, notice_content) ==
    LET stamp == clock + 1
        try_email == channel_wanted(recipient_info.email, email_enabled)
        email == email_send_notice(email_enabled, sent_emails, recipient_info.email,
                                   notice_content.email_subject,
                                   notice_content.email_body, clock + 2)
        after_email == IF try_email THEN clock + 2 + email.readings ELSE clock + 2
        try_sms == channel_wanted(recipient_info.phone, sms_enabled)
        sms == sms_send_notice(sms_enabled, sent_sms, recipient_info.phone,
                               notice_content.sms_message, after_email)
        after_sms == IF try_sms THEN after_email + sms.readings ELSE after_email
        notifications_sent ==
            notifications_of(try_email, email.result, try_sms, sms.result, stamp)
    IN  /\ sent_emails' = IF try_email THEN email.sent ELSE sent_emails
        /\ sent_sms' = IF try_sms THEN sms.sent ELSE sent_sms
        /\ notification_log' = log_notification(notification_log, calculation_result,
                                   recipient_info, notifications_sent, after_sms)
        /\ call' = [op |-> "send_penalty_notice", calculation_result |-> calculation_result,
                    recipient_info |-> recipient_info, email_attempted |-> try_email,
                    sms_attempted |-> try_sms]
        /\ ret' = Returned(
               [notice_id |-> notice_id_of(after_sms + 1),
                status |-> "sent",
                notifications |-> notifications_sent,
                content_preview |->
                    [subject |-> notice_content.email_subject,
                     sms_preview |-> str_dots(str_prefix(notice_content.sms_message, 50))]])
        /\ logged' = (IF try_email THEN email.logged ELSE << >>)
                     \o (IF try_sms THEN sms.logged ELSE << >>)
        /\ clock' = after_sms + 2
        /\ UNCHANGED <<calcVars, threads, engineVars, email_enabled, sms_enabled>>

\* send_penalty_notice
SendPenaltyNotice(calculation_result, recipient_info) ==
    IF calculation_result.type # "dict"
        THEN SendPenaltyNoticeFailed(calculation_result, recipient_info,
                                     "AttributeError: no attribute 'get'")
    ELSE LET notice_content ==
                 prepare_notice_content(calculation_result.delay_minutes,
                     calculation_result.penalty_amount, calculation_result.rule_applied,
                     recipient_info, clock)
         IN  IF notice_content.status = "raised"
                 THEN SendPenaltyNoticeFailed(calculation_result, recipient_info,
                                              notice_content.exc)
             ELSE SendPenaltyNoticeSent(calculation_result, recipient_info,
                                        notice_content.value)

----------------------------------------------------------------------------
(* The decision engine and the notice sender with their logs.  The logs    *)
(* start empty, or as they are after 1000 earlier calls: of                *)
(* explain_no_penalty(0) and of send_penalty_notice for a recipient        *)
(* without contact, whose clock readings lie before reading 0.             *)

PrefilledDecisionLog(n) ==
    [i \in 1 .. n |->
        LET t == 3 * (i - n - 1)
            context == [delay_minutes |-> PyInt(0),
                        penalty_amount |-> PyAmount(0),
                        rule_applied |-> "no_penalty_threshold",
                        decision_type |-> "no_penalty",
                        timestamp |-> t]
        IN  log_decision(<< >>, "no_penalty_explanation", context,
                         generate_explanation(context, 1, t + 1), t + 2)[1]]

PrefilledNotificationLog(n) ==
    [i \in 1 .. n |->
        LET t == 4 * (i - n - 1)
        IN  log_notification(<< >>,
                CalculationResult(PyInt(0), PyAmount(0), "no_penalty_threshold"),
                Recipient(PyNone, PyNone, PyNone),
                [email |-> FALSE, sms |-> FALSE, timestamp |-> t + 1], t + 2)[1]]

PrefillSizes == {0, MAX_DECISION_LOGS}

InitLogs ==
    /\ thresholds = PENALTY_THRESHOLDS
    /\ amounts = PENALTY_AMOUNTS
    /\ clock = 0
    /\ call = NoCall
    /\ ret = NoRet
    /\ logged = << >>
    /\ \E n \in PrefillSizes :
          /\ decision_logs = PrefilledDecisionLog(n)
          /\ notification_log = PrefilledNotificationLog(n)
    /\ email_enabled = TRUE
    /\ sent_emails = << >>
    /\ sms_enabled = TRUE
    /\ sent_sms = << >>
    /\ threads = NoThreads

LogDelays == {PyInt(45), PyNone}
LogAmounts == {PyAmount(500000), PyStr}
Choices == 1 .. 3
Limits == (-1 .. MaxLimit) \cup {100, MAX_DECISION_LOGS, MAX_DECISION_LOGS + 1}

OpsEmail == Text("ops@example.com", 15, TRUE, TRUE)
OpsPhone == Text("9876543210", 10, FALSE, FALSE)

LogResults == {CalculationResult(PyInt(45), PyAmount(500000), "fixed_penalty_rule"), PyNone}
LogRecipients == {Recipient(PyNone, OpsEmail, PyNone), Recipient(PyNone, OpsEmail, OpsPhone)}

NextLogs ==
    \/ /\ clock < MaxClock
       /\ \E d \in LogDelays, a \in LogAmounts, c \in Choices :
             ExplainPenalty(d, a, "fixed_penalty_rule", c)
    \/ /\ clock < MaxClock
       /\ \E d \in LogDelays, c \in Choices : ExplainNoPenalty(d, c)
    \/ \E limit \in Limits : GetDecisionLogs(limit)
    \/ /\ clock < MaxClock
       /\ \E r \in LogResults, who \in LogRecipients : SendPenaltyNotice(r, who)

SpecLogs == InitLogs /\ [][NextLogs]_vars

----------------------------------------------------------------------------
(* Properties of the logs *)

Last(seq) == seq[Len(seq)]

\* the entries lie in the order of their appending
InAppendOrder(log) ==
    \A i \in 1 .. Len(log) - 1 : log[i].timestamp < log[i + 1].timestamp

\* new is old with one entry appended; from a full log the oldest entry is
\* gone and no other
AppendedEvictingOldest(old, new, max) ==
    /\ new # << >>
    /\ \A i \in 1 .. Len(old) : old[i].timestamp < Last(new).timestamp
    /\ IF Len(old) < max
           THEN new = Append(old, Last(new))
       ELSE new = Append(Tail(old), Last(new))

\* C8: the Decision Log and the Notification Log hold at most 1000 entries
\* in append order; an append to a log of 1000 entries evicts exactly the
\* oldest entry and leaves the new entry last.
C8_BoundedLogs ==
    /\ [](/\ Len(decision_logs) <= 1000 /\ InAppendOrder(decision_logs)
          /\ Len(notification_log) <= 1000 /\ InAppendOrder(notification_log))
    /\ [][/\ \/ decision_logs' = decision_logs
             \/ AppendedEvictingOldest(decision_logs, decision_logs', 1000)
          /\ \/ notification_log' = notification_log
             \/ AppendedEvictingOldest(notification_log, notification_log', 1000)]_vars

\* both logs were full and have taken one more entry
C8_Witness ==
    /\ Len(decision_logs) = 1000 /\ Last(decision_logs).timestamp >= 0
    /\ decision_logs[1].context.timestamp = 3 * (1 - 1000)
    /\ Len(notification_log) = 1000 /\ Last(notification_log).timestamp >= 0

\* the k most recently appended entries, newest last
MostRecent(log, k) == SubSeq(log, Len(log) - k + 1, Len(log))

\* C9: for every limit, 0 and limits above the size of the log included,
\* get_decision_logs(limit) returns the min(limit, size) most recent
\* entries, newest last, and the empty sequence when the log is empty.
C9_MostRecentLimit ==
    (call.op = "get_decision_logs" /\ call.limit >= 0)
        => ret.value = MostRecent(decision_logs, Min(call.limit, Len(decision_logs)))

ExplainOps == {"explain_penalty", "explain_no_penalty"}

\* the step is a call of explain_penalty or explain_no_penalty
ExplainStep == call'.op \in ExplainOps /\ clock' # clock

\* C10: every call of explain_penalty or explain_no_penalty appends exactly
\* one record to the Decision Log before it returns; the record carries the
\* delay_minutes, penalty_amount and rule_applied of the call and the
\* Explanation that is returned, the fallback Explanation included.
C10_ExplainLogsWhatItReturns ==
    [][ExplainStep =>
          /\ ret'.status = "returned"
          /\ AppendedEvictingOldest(decision_logs, decision_logs', 1000)
          /\ Last(decision_logs').ai_response = ret'.value
          /\ Last(decision_logs').context.delay_minutes = call'.delay_minutes
          /\ Last(decision_logs').context.penalty_amount
                = (IF call'.op = "explain_penalty" THEN call'.penalty_amount
                   ELSE PyAmount(0))
          /\ Last(decision_logs').context.rule_applied
                = (IF call'.op = "explain_penalty" THEN call'.rule_applied
                   ELSE "no_penalty_threshold")]_vars

\* explain_penalty returned the fallback Explanation and logged it
C10_Witness ==
    /\ call.op = "explain_penalty"
    /\ "error" \in DOMAIN ret.value
    /\ ret.value.confidence_score = 0
    /\ Last(decision_logs).ai_response = ret.value

----------------------------------------------------------------------------
(* AIClient called directly, and the /calculate handler of decision_api.py *)

\* AIClient.generate_explanation called on any context
GenerateExplanation(context, choice) ==
    LET explanation == generate_explanation(context, choice, clock)
    IN  /\ call' = [op |-> "generate_explanation", context |-> context]
        /\ ret' = Returned(explanation)
        /\ logged' = generate_explanation_logged(explanation)
        /\ clock' = clock + 1
        /\ UNCHANGED <<calcVars, threads, engineVars, noticeVars>>

\* calculate_penalty of decision_api.py on a request that passed validation
\* (an integer in 0 .. 1440): calculate, then explain_penalty or
\* explain_no_penalty with what calculate returned, then the response
calculate_penalty(delay_minutes, service_type, choice) ==
    LET penalty_result == calculate(thresholds, amounts, PyInt(delay_minutes),
                                    service_type).value
        context ==
            IF penalty_result.penalty_applied
                THEN [delay_minutes |-> PyInt(delay_minutes),
                      penalty_amount |-> PyAmount(penalty_result.penalty_amount),
                      rule_applied |-> penalty_result.rule_applied,
                      decision_type |-> "penalty_applied",
                      timestamp |-> clock]
            ELSE [delay_minutes |-> PyInt(delay_minutes),
                  penalty_amount |-> PyAmount(0),
                  rule_applied |-> "no_penalty_threshold",
                  decision_type |-> "no_penalty",
                  timestamp |-> clock]
        explanation == generate_explanation(context, choice, clock + 1)
    IN  /\ call' = [op |-> "calculate_penalty", delay_minutes |-> delay_minutes,
                    service_type |-> service_type]
        /\ decision_logs' =
              log_decision(decision_logs,
                           IF penalty_result.penalty_applied
                               THEN "penalty_explanation"
                           ELSE "no_penalty_explanation",
                           context, explanation, clock + 2)
        /\ ret' = Returned([timestamp |-> clock + 3,
                            calculation_result |-> penalty_result,
                            ai_explanation |-> explanation,
                            notifications_sent |-> FALSE])
        /\ logged' = calculate_logged(Returned(penalty_result))
                        \o generate_explanation_logged(explanation)
                        \o log_decision_logged
        /\ clock' = clock + 4
        /\ UNCHANGED <<calcVars, threads, noticeVars>>

\* the contexts a caller of generate_explanation can pass: dicts with and
\* without the three keys, values of every type, and something that is no dict
ExplainContexts ==
    { [delay_minutes |-> d, penalty_amount |-> a, rule_applied |-> r] :
          d \in {PyInt(15), PyInt(45), PyInt(75), PyFloat(61), PyBool(1), PyStr, PyNone},
          a \in {PyAmount(0), PyAmount(500000), PyInt(500), PyStr, PyNone},
          r \in {"no_penalty_threshold", "fixed_penalty_rule",
                 "progressive_penalty_rule"} }
    \cup { [service_type |-> "standard"],
           [delay_minutes |-> PyInt(75)],
           [penalty_amount |-> PyStr],
           PyNone, PyStr, PyInt(45) }

\* the delays a request is made with: around every cut-off of the configs
RequestDelays == {0, 15, 30, 31, 45, 60, 61, 100, 125, 126}

InitExplain ==
    /\ thresholds \in ThresholdConfigs
    /\ amounts = PENALTY_AMOUNTS
    /\ InitRest

NextExplain ==
    \/ /\ clock < MaxClock
       /\ \E context \in ExplainContexts, choice \in Choices :
             GenerateExplanation(context, choice)
    \/ /\ clock < MaxClock
       /\ \E delay_minutes \in RequestDelays, choice \in Choices :
             calculate_penalty(delay_minutes, "standard", choice)

SpecExplain == InitExplain /\ [][NextExplain]_vars

\* the step is a call of generate_explanation
GenerateStep == call'.op = "generate_explanation" /\ clock' = clock + 1

\* what makes generate_explanation fail inside: no dict, an amount the
\* format :,.2f rejects, or a delay that cannot be compared with 30
FailsInside(context) ==
    \/ "type" \in DOMAIN context
    \/ "penalty_amount" \in DOMAIN context
          /\ context.penalty_amount.type \in {"str", "NoneType"}
    \/ "delay_minutes" \in DOMAIN context
          /\ context.delay_minutes.type \in {"str", "NoneType"}

\* C11: generate_explanation never raises. When it fails inside it returns
\* the fallback with confidence 0.0 and the error; whatever happens the text
\* is not empty and the confidence is between 0 and 1.
C11_ExplanationNeverRaises ==
    [][GenerateStep =>
          /\ ret'.status = "returned"
          /\ ret'.value.explanation.words > 0
          /\ ret'.value.confidence_score \in 0 .. 100
          /\ FailsInside(call'.context) =>
                /\ ret'.value.explanation = fallback_text
                /\ ret'.value.confidence_score = 0
                /\ "error" \in DOMAIN ret'.value]_vars

\* a call on something that is no dict came back with the fallback
C11_Witness ==
    /\ call.op = "generate_explanation"
    /\ call.context = PyNone
    /\ ret.status = "returned"
    /\ ret.value.confidence_score = 0
    /\ "error" \in DOMAIN ret.value

\* the phrasing family that belongs to the rule the calculator applied
FamilyOfRule(rule_applied) ==
    IF rule_applied = "no_penalty_threshold" THEN "no_penalty"
    ELSE IF rule_applied = "fixed_penalty_rule" THEN "low_penalty"
    ELSE "high_penalty"

\* C19: the explanation a request gets is worded for the tier named by
\* rule_applied, the tier the calculator assigned under the loaded Rule
\* Config, not for fixed 30 and 60 minute cut-offs on the delay.
C19_FamilyFollowsRule ==
    (call.op = "calculate_penalty" /\ thresholds.no_penalty_max >= 0) =>
        ret.value.ai_explanation.explanation.family =
            FamilyOfRule(ret.value.calculation_result.rule_applied)

----------------------------------------------------------------------------
(* Callers of DecisionEngine._log_decision running at the same time.  The
   method holds no lock: the append, the test of the length, the slice and
   the assignment of the slice are separate steps of each caller. *)

\* the entry caller t builds: lines 111 to 117
thread_log_entry(t, now) ==
    [timestamp |-> now,
     decision_type |-> "no_penalty_explanation",
     context |-> [delay_minutes |-> PyInt(t),
                  penalty_amount |-> PyAmount(0),
                  rule_applied |-> "no_penalty_threshold",
                  decision_type |-> "no_penalty",
                  timestamp |-> now],
     ai_response |-> fallback_text,
     system_version |-> "1.0.0"]

Threads == 1 .. NThreads

\* lines 111 to 119: build the entry and append it
ThreadAppend(t) ==
    /\ threads[t].pc = "start"
    /\ LET log_entry == thread_log_entry(t, clock)
       IN  /\ decision_logs' = Append(decision_logs, log_entry)
           /\ threads' = [threads EXCEPT ![t] =
                             [pc |-> "appended", log_entry |-> log_entry,
                              kept |-> << >>]]
    /\ clock' = clock + 1
    /\ UNCHANGED <<calcVars, call, ret, logged, noticeVars>>

\* line 122: len(self.decision_logs) > 1000
ThreadTest(t) ==
    /\ threads[t].pc = "appended"
    /\ threads' = [threads EXCEPT ![t].pc =
                      IF Len(decision_logs) > MAX_DECISION_LOGS
                          THEN "over" ELSE "kept"]
    /\ UNCHANGED <<calcVars, clock, call, ret, logged, engineVars, noticeVars>>

\* line 123, right-hand side: self.decision_logs[-1000:]
ThreadSlice(t) ==
    /\ threads[t].pc = "over"
    /\ threads' = [threads EXCEPT ![t].pc = "sliced",
                                  ![t].kept = slice_from(decision_logs,
                                                         -MAX_DECISION_LOGS)]
    /\ UNCHANGED <<calcVars, clock, call, ret, logged, engineVars, noticeVars>>

\* line 123, assignment: self.decision_logs = ...
ThreadStore(t) ==
    /\ threads[t].pc = "sliced"
    /\ decision_logs' = threads[t].kept
    /\ threads' = [threads EXCEPT ![t].pc = "kept", ![t].kept = << >>]
    /\ UNCHANGED <<calcVars, clock, call, ret, logged, noticeVars>>

\* line 125: logger.info, and the return
ThreadReturn(t) ==
    /\ threads[t].pc = "kept"
    /\ threads' = [threads EXCEPT ![t].pc = "done"]
    /\ logged' = logged \o log_decision_logged
    /\ UNCHANGED <<calcVars, clock, call, ret, engineVars, noticeVars>>

\* the log the callers find: empty, one below the cap, at the cap
ThreadPrefillSizes == {0, MAX_DECISION_LOGS - 1, MAX_DECISION_LOGS}

InitThreads ==
    /\ thresholds = PENALTY_THRESHOLDS
    /\ amounts = PENALTY_AMOUNTS
    /\ clock = 0
    /\ call = NoCall
    /\ ret = NoRet
    /\ logged = << >>
    /\ \E n \in ThreadPrefillSizes : decision_logs = PrefilledDecisionLog(n)
    /\ notification_log = << >>
    /\ email_enabled = TRUE
    /\ sent_emails = << >>
    /\ sms_enabled = TRUE
    /\ sent_sms = << >>
    /\ threads = [t \in Threads |->
                     [pc |-> "start", log_entry |-> << >>, kept |-> << >>]]

NextThreads ==
    \E t \in Threads :
        \/ ThreadAppend(t)
        \/ ThreadTest(t)
        \/ ThreadSlice(t)
        \/ ThreadStore(t)
        \/ ThreadReturn(t)

SpecThreads == InitThreads /\ [][NextThreads]_vars

AllDone == \A t \in Threads : threads[t].pc = "done"

\* C12: whatever the interleaving of the callers, each call appends and
\* evicts as one step: once all callers are done none of their entries is
\* missing (they are fewer than 1000) and the log holds at most 1000.
C12_NoAppendLost ==
    AllDone =>
        /\ Len(decision_logs) <= MAX_DECISION_LOGS
        /\ \A t \in Threads :
              \E i \in DOMAIN decision_logs :
                  decision_logs[i] = threads[t].log_entry

----------------------------------------------------------------------------
(* The notice sender and its two transports, which can be switched off and *)
(* on, for every kind of recipient and of calculation result.              *)

\* EmailService.enable_service and disable_service
EmailSetEnabled(enabled) ==
    /\ email_enabled' = enabled
    /\ call' = [op |-> IF enabled THEN "email.enable_service"
                       ELSE "email.disable_service"]
    /\ ret' = Returned(PyNone)
    /\ logged' = << [level |-> "info",
                     msg |-> IF enabled THEN "Email service enabled"
                             ELSE "Email service disabled"] >>
    /\ UNCHANGED <<calcVars, threads, clock, engineVars, notification_log,
                   sent_emails, sms_enabled, sent_sms>>

\* SMSService.enable_service and disable_service
SmsSetEnabled(enabled) ==
    /\ sms_enabled' = enabled
    /\ call' = [op |-> IF enabled THEN "sms.enable_service"
                       ELSE "sms.disable_service"]
    /\ ret' = Returned(PyNone)
    /\ logged' = << [level |-> "info",
                     msg |-> IF enabled THEN "SMS service enabled"
                             ELSE "SMS service disabled"] >>
    /\ UNCHANGED <<calcVars, threads, clock, engineVars, notification_log,
                   email_enabled, sent_emails, sent_sms>>

BadEmail == Text("ops.example.com", 15, FALSE, TRUE)
ShortPhone == Text("98765", 5, FALSE, FALSE)
EmptyText == Text("", 0, FALSE, FALSE)

\* the SMS text without penalty is 65 characters and the delay: delays of
\* LongDelayDigits - 1 digits give 160 characters, of LongDelayDigits 161
NoticeResults ==
    { CalculationResult(PyInt(45), PyAmount(500000), "fixed_penalty_rule"),
      CalculationResult(PyInt(15), PyAmount(0), "no_penalty_threshold"),
      CalculationResult(LongInt(LongDelayDigits - 1), PyAmount(0), "no_penalty_threshold"),
      CalculationResult(LongInt(LongDelayDigits), PyAmount(0), "no_penalty_threshold"),
      CalculationResult(LongInt(LongDelayDigits), PyAmount(500000), "fixed_penalty_rule"),
      CalculationResult(PyInt(45), PyStr, "fixed_penalty_rule"),
      PyNone }

NoticeRecipients ==
    { Recipient(PyNone, email, phone) :
          email \in {PyNone, OpsEmail, BadEmail, PyInt(5)},
          phone \in {PyNone, EmptyText, OpsPhone, ShortPhone, PyInt(98765)} }
    \cup { PyNone }

\* what makes send_penalty_notice fail inside: a calculation_result or a
\* recipient_info that is no dict, an amount that cannot be compared with 0
Malformed(calculation_result, recipient_info) ==
    IF calculation_result.type # "dict" THEN TRUE
    ELSE IF calculation_result.penalty_amount.type \in {"str", "NoneType"} THEN TRUE
    ELSE recipient_info.type # "dict"

InitNotice ==
    /\ thresholds = PENALTY_THRESHOLDS
    /\ amounts = PENALTY_AMOUNTS
    /\ InitRest

NextNotice ==
    \/ \E enabled \in BOOLEAN : EmailSetEnabled(enabled)
    \/ \E enabled \in BOOLEAN : SmsSetEnabled(enabled)
    \/ \E r \in NoticeResults, who \in NoticeRecipients :
          \* the four readings of a call fit, or the call reads none
          /\ clock + 4 <= MaxClock \/ Malformed(r, who)
          /\ SendPenaltyNotice(r, who)

SpecNotice == InitNotice /\ [][NextNotice]_vars

\* the step is a call of send_penalty_notice
NoticeStep == call'.op = "send_penalty_notice"

\* the call got as far as the channels
ReachedChannels == ret'.value.status = "sent"

\* C13: a channel's send is invoked only if the recipient has the contact
\* and the transport is enabled; for a recipient with an email and no phone
\* notifications.sms is false and the SMS transport is not called, its
\* history staying as it was.
C13_ChannelOnlyIfContactAndEnabled ==
    [][NoticeStep =>
          /\ call'.email_attempted =>
                truthy(call'.recipient_info.email) /\ email_enabled
          /\ call'.sms_attempted =>
                truthy(call'.recipient_info.phone) /\ sms_enabled
          /\ sent_emails' # sent_emails => call'.email_attempted
          /\ sent_sms' # sent_sms => call'.sms_attempted
          /\ (/\ ReachedChannels
              /\ truthy(call'.recipient_info.email)
              /\ ~truthy(call'.recipient_info.phone)) =>
                /\ ret'.value.notifications.sms = FALSE
                /\ ~call'.sms_attempted
                /\ sent_sms' = sent_sms]_vars

\* an email-only recipient was notified by email alone
C13_Witness ==
    /\ call.op = "send_penalty_notice"
    /\ call.recipient_info = Recipient(PyNone, OpsEmail, PyNone)
    /\ ret.value.status = "sent"
    /\ ret.value.notifications.email = TRUE
    /\ ret.value.notifications.sms = FALSE
    /\ sms_enabled
    /\ Len(sent_emails) = 1
    /\ sent_sms = << >>

\* what each transport answers for a contact, by lines 33 to 46 of email.py
\* and 34 to 47 of sms.py
EmailAccepts(to_email) ==
    to_email.type = "str" /\ to_email.has_at /\ to_email.has_dot
SmsAccepts(to_phone) == to_phone.type = "str" /\ to_phone.len >= 10

\* C14: the channels are independent. An email that fails, its transport
\* disabled or the address invalid, does not stop the SMS from being tried;
\* notifications.sms is the SMS transport's result alone and
\* notifications.email the email transport's alone; the call returns.
C14_ChannelsIndependent ==
    [][(NoticeStep /\ ReachedChannels) =>
          /\ ret'.status = "returned"
          /\ call'.sms_attempted =
                (truthy(call'.recipient_info.phone) /\ sms_enabled)
          /\ ret'.value.notifications.sms =
                (sms_enabled /\ SmsAccepts(call'.recipient_info.phone))
          /\ call'.email_attempted =
                (truthy(call'.recipient_info.email) /\ email_enabled)
          /\ ret'.value.notifications.email =
                (email_enabled /\ EmailAccepts(call'.recipient_info.email))]_vars

\* the email was tried and refused, and the SMS went out all the same
C14_Witness ==
    /\ call.op = "send_penalty_notice"
    /\ call.recipient_info = Recipient(PyNone, BadEmail, OpsPhone)
    /\ call.email_attempted
    /\ ret.value.notifications.email = FALSE
    /\ ret.value.notifications.sms = TRUE
    /\ sent_emails = << >>
    /\ Len(sent_sms) = 1

\* C15: every call of send_penalty_notice appends exactly one record to the
\* Notification Log, whether the channels succeeded, failed, or the call
\* ended with status "failed".
C15_EveryCallLogged ==
    [][NoticeStep =>
          /\ Len(notification_log') = Len(notification_log) + 1
          /\ SubSeq(notification_log', 1, Len(notification_log)) = notification_log
      ]_vars

\* C16: send_penalty_notice never raises. On a failure inside it returns
\* status "failed", notice_id null and both notification flags false;
\* otherwise status "sent" with a notice_id that is not null.
C16_NoticeNeverRaises ==
    [][NoticeStep =>
          /\ ret'.status = "returned"
          /\ IF Malformed(call'.calculation_result, call'.recipient_info)
                 THEN /\ ret'.value.status = "failed"
                      /\ ret'.value.notice_id = PyNone
                      /\ ret'.value.notifications = [email |-> FALSE, sms |-> FALSE]
             ELSE /\ ret'.value.status = "sent"
                  /\ ret'.value.notice_id # PyNone]_vars

\* a call with a recipient that is no dict came back failed
C16_Witness ==
    /\ call.op = "send_penalty_notice"
    /\ call.calculation_result =
          CalculationResult(PyInt(45), PyAmount(500000), "fixed_penalty_rule")
    /\ call.recipient_info = PyNone
    /\ ret.status = "returned"
    /\ ret.value.status = "failed"
    /\ ret.value.notice_id = PyNone

\* the SMS text send_penalty_notice prepared for the call
PreparedSms(c) ==
    prepare_notice_content(c.calculation_result.delay_minutes,
                           c.calculation_result.penalty_amount,
                           c.calculation_result.rule_applied,
                           c.recipient_info, 0).value.sms_message

MAX_SMS_CHARACTERS == 160

\* C20: every SMS body sent for a notice has at most 160 characters: a
\* longer text is cut to its first 157 characters and "...", a text of at
\* most 160 goes unchanged, and the message kept in the SMS history obeys
\* the cap.
C20_SmsWithinLimit ==
    [][(NoticeStep /\ sent_sms' # sent_sms) =>
          LET sms_record == Last(sent_sms')
              prepared == PreparedSms(call')
          IN  /\ sent_sms' = Append(sent_sms, sms_record)
              /\ str_length(sms_record.message) <= MAX_SMS_CHARACTERS
              /\ sms_record.characters = str_length(sms_record.message)
              /\ IF str_length(prepared) > MAX_SMS_CHARACTERS
                     THEN /\ sms_record.message.of = prepared.of
                          /\ sms_record.message.shown = MAX_SMS_CHARACTERS - 3
                          /\ sms_record.message.dots = 3
                 ELSE sms_record.message = prepared]_vars

\* a text longer than 160 characters was sent, cut
C20_Witness ==
    /\ call.op = "send_penalty_notice"
    /\ Len(sent_sms) = 1
    /\ str_length(PreparedSms(call)) > MAX_SMS_CHARACTERS
    /\ sent_sms[1].message.dots = 3
    /\ sent_sms[1].characters = MAX_SMS_CHARACTERS

\* a text of exactly 160 characters was sent as it was
C20_WitnessUncut ==
    /\ call.op = "send_penalty_notice"
    /\ Len(sent_sms) = 1
    /\ sent_sms[1].message.dots = 0
    /\ sent_sms[1].characters = MAX_SMS_CHARACTERS

----------------------------------------------------------------------------
(* PenaltyCalculator.validate_rules on every kind of Rule Config *)

ThresholdNames ==
    <<"no_penalty_max", "low_penalty_min", "low_penalty_max", "high_penalty_min">>

\* the entries the loop of lines 151 to 158 appends to issues, in its order
RECURSIVE threshold_issues(_, _)
threshold_issues(th, k) ==
    IF k = 0 THEN << >>
    ELSE threshold_issues(th, k - 1)
         \o (IF th[ThresholdNames[k]] < 0
                 THEN << <<"Negative threshold", ThresholdNames[k]>> >>
             ELSE << >>)

\* validate_rules: lines 134 to 175
validate_rules(th, am) ==
    LET issues ==
            threshold_issues(th, Len(ThresholdNames))
            \o (IF am.fixed_penalty <= 0
                    THEN << <<"Fixed penalty must be positive">> >> ELSE << >>)
            \o (IF am.variable_rate <= 0
                    THEN << <<"Variable rate must be positive">> >> ELSE << >>)
    IN  [rules_valid |-> issues = << >>,
         issues |-> issues,
         threshold_checks |->
             [name \in {ThresholdNames[k] : k \in DOMAIN ThresholdNames} |->
                 [value |-> th[name], valid |-> th[name] >= 0]],
         amount_checks |-> am]

ValidateRules ==
    /\ call' = [op |-> "validate_rules"]
    /\ ret' = Returned(validate_rules(thresholds, amounts))
    /\ logged' = << >>
    /\ UNCHANGED <<calcVars, threads, clock, engineVars, noticeVars>>

\* Rule Configs with every threshold and every amount right or wrong on
\* its own: a threshold below 0, an amount of 0 or below
RuleThresholds ==
    { [no_penalty_max |-> a, low_penalty_min |-> b,
       low_penalty_max |-> c, high_penalty_min |-> d] :
          a \in {-1, 30}, b \in {-1, 31}, c \in {-1, 60}, d \in {-1, 61} }

RuleAmounts ==
    { [fixed_penalty |-> f, variable_rate |-> v, high_penalty_base |-> b] :
          f \in {-500000, 0, 500000}, v \in {-25000, 0, 25000},
          b \in {-1000000, 0, 1000000} }

InitRules ==
    /\ thresholds \in RuleThresholds
    /\ amounts \in RuleAmounts
    /\ InitRest

NextRules == ValidateRules

SpecRules == InitRules /\ [][NextRules]_vars

\* C17: validate_rules reports rules_valid exactly when the four thresholds
\* are not negative and the three amounts (fixed_penalty, variable_rate,
\* high_penalty_base) are positive; what is wrong is listed in issues; the
\* thresholds and amounts are left as they were.
C17_ValidIffConfigSound ==
    call.op = "validate_rules" =>
        /\ ret.status = "returned"
        /\ ret.value.rules_valid =
              (/\ \A k \in DOMAIN ThresholdNames : thresholds[ThresholdNames[k]] >= 0
               /\ amounts.fixed_penalty > 0
               /\ amounts.variable_rate > 0
               /\ amounts.high_penalty_base > 0)
        /\ ret.value.rules_valid = (ret.value.issues = << >>)

----------------------------------------------------------------------------
(* The transports called directly, with send histories that are empty or   *)
(* as they are after 1000 notices went out, whose clock readings lie       *)
(* before reading 0.                                                       *)

NoticeSubject == py_str([template |-> "Delay Notification", delay |-> PyInt(15)], 44)
NoticeBody == py_str([template |-> "AI-BOS Notification", delay |-> PyInt(15)], 1984)
NoticeSms == py_str([template |-> "AI-BOS: no penalty", delay |-> PyInt(15)], 67)

\* EmailService.send_notice
EmailSendNotice(to_email, subject, body) ==
    LET email == email_send_notice(email_enabled, sent_emails, to_email,
                                   subject, body, clock)
    IN  /\ call' = [op |-> "email.send_notice", to_email |-> to_email]
        /\ ret' = Returned(email.result)
        /\ sent_emails' = email.sent
        /\ logged' = email.logged
        /\ clock' = clock + email.readings
        /\ UNCHANGED <<calcVars, threads, engineVars, notification_log,
                       email_enabled, sms_enabled, sent_sms>>

\* SMSService.send_notice
SmsSendNotice(to_phone, message) ==
    LET sms == sms_send_notice(sms_enabled, sent_sms, to_phone, message, clock)
    IN  /\ call' = [op |-> "sms.send_notice", to_phone |-> to_phone]
        /\ ret' = Returned(sms.result)
        /\ sent_sms' = sms.sent
        /\ logged' = sms.logged
        /\ clock' = clock + sms.readings
        /\ UNCHANGED <<calcVars, threads, engineVars, notification_log,
                       email_enabled, sms_enabled, sent_emails>>

\* the history after n emails, after n SMS
SentEmailsAfter(n) ==
    [i \in 1 .. n |->
        email_send_notice(TRUE, << >>, OpsEmail, NoticeSubject, NoticeBody,
                          2 * (i - n - 1)).sent[1]]

SentSmsAfter(n) ==
    [i \in 1 .. n |->
        sms_send_notice(TRUE, << >>, OpsPhone, NoticeSms, 2 * (i - n - 1)).sent[1]]

\* the capacity of the two logs of the program; the transports name none
HistoryCapacity == MAX_NOTIFICATION_LOGS

InitHistory ==
    /\ thresholds = PENALTY_THRESHOLDS
    /\ amounts = PENALTY_AMOUNTS
    /\ clock = 0
    /\ call = NoCall
    /\ ret = NoRet
    /\ logged = << >>
    /\ decision_logs = << >>
    /\ notification_log = << >>
    /\ email_enabled = TRUE
    /\ sms_enabled = TRUE
    /\ \E n \in {0, HistoryCapacity} :
          /\ sent_emails = SentEmailsAfter(n)
          /\ sent_sms = SentSmsAfter(n)
    /\ threads = NoThreads

NextHistory ==
    \/ \E enabled \in BOOLEAN : EmailSetEnabled(enabled)
    \/ \E enabled \in BOOLEAN : SmsSetEnabled(enabled)
    \/ /\ clock < MaxClock
       /\ \E to_email \in {OpsEmail, BadEmail} :
             EmailSendNotice(to_email, NoticeSubject, NoticeBody)
    \/ /\ clock < MaxClock
       /\ \E to_phone \in {OpsPhone, ShortPhone} :
             SmsSendNotice(to_phone, NoticeSms)

SpecHistory == InitHistory /\ [][NextHistory]_vars

\* C18: each transport keeps a bounded send history: sent_emails and
\* sent_sms never hold more records than a fixed capacity.
C18_BoundedSendHistory ==
    /\ Len(sent_emails) <= HistoryCapacity
    /\ Len(sent_sms) <= HistoryCapacity

----------------------------------------------------------------------------
(* What a failed notice leaves behind *)

\* C21: whenever send_penalty_notice returns status "failed" the failure
\* came before any channel was tried: neither transport's send was called,
\* the email and SMS histories are as they were, and so is the
\* Notification Log; no notice that was partly delivered is reported failed.
C21_FailedLeavesNoTrace ==
    [][(NoticeStep /\ ret'.value.status = "failed") =>
          /\ ~call'.email_attempted
          /\ ~call'.sms_attempted
          /\ sent_emails' = sent_emails
          /\ sent_sms' = sent_sms
          /\ notification_log' = notification_log
          /\ ret'.value.notifications = [email |-> FALSE, sms |-> FALSE]]_vars

\* a call failed after an earlier notice had gone out on both channels,
\* and the histories and the log still hold just that notice
C21_Witness ==
    /\ call.op = "send_penalty_notice"
    /\ ret.value.status = "failed"
    /\ Len(sent_emails) = 1
    /\ Len(sent_sms) = 1
    /\ Len(notification_log) = 1

====
